---- MODULE Spec2Model ----
(***************************************************************************)
(* Model of Infovis/vtkOrderStatistics.cxx: the Learn, Derive, Assess and *)
(* Test operations of vtkOrderStatistics on one requested column.          *)
(*                                                                         *)
(* Representation of values.                                               *)
(*  - A double is represented by the integer 2*d ("halves"): every input   *)
(*    observation is a whole number, and the only arithmetic Derive does   *)
(*    on values is .5 * ( a + b ), which is exact in halves.  NaN is a     *)
(*    distinguished value for which every ordered comparison is false.     *)
(*  - A vtkStdString is the sequence of its character codes, compared      *)
(*    lexicographically as std::string does.                               *)
(*  - A vtkVariant is a record [tag, val]; the variants explored hold      *)
(*    strings.                                                             *)
(*  - np = k * ( n / N ) is kept as the exact fraction k*n / N; for the    *)
(*    sizes explored here the double computation rounds, ceils and floors  *)
(*    to the same integers.                                                *)
(*  - A probability is an exact fraction <<numerator, denominator>>; Test   *)
(*    keys its empirical CDF by the text of each value, so a value is      *)
(*    converted to the sequence of the character codes of its decimal form *)
(*    and the keys are ordered as std::string orders them.                 *)
(***************************************************************************)
EXTENDS Integers, Sequences, FiniteSets, TLC

\* ------------------------------------------------------------------ bounds
MaxRows == 4          \* longest input column explored
MaxVal == 2           \* numeric observations are the whole numbers 1..MaxVal
MaxIntervals == 6     \* largest NumberOfIntervals explored
MaxTable == 4         \* largest number of intervals of a breakpoint table given to Assess
MaxTestRows == 3      \* longest column given to Learn before Test
MaxBlockRows == 2     \* most observations counted in a histogram block given to Derive

\* -------------------------------------------------------------- value types
D(x) == 2 * x

NaN == -1

\* double operator<
DataLess(a, b) == a # NaN /\ b # NaN /\ a < b

\* variant: the midpoint takes the lower value twice
HalfSum_LowerOnly(a, b) == IF a = NaN \/ b = NaN THEN NaN ELSE (a + a) \div 2

\* .5 * ( a + b ) on doubles
HalfSum(a, b) == IF a = NaN \/ b = NaN THEN NaN ELSE (a + b) \div 2

Min2(a, b) == IF a < b THEN a ELSE b

\* std::string operator<
StrLess(a, b) ==
  LET m == Min2(Len(a), Len(b))
      diff == {i \in 1..m : a[i] # b[i]}
  IN  IF diff = {}
        THEN Len(a) < Len(b)
        ELSE LET i == CHOOSE j \in diff : \A l \in diff : j <= l
             IN  a[i] < b[i]

\* vtkVariant operator< on two variants holding strings
VariantLess(a, b) == StrLess(a.val, b.val)

\* the ordering of a column's values, by array type
Less(type, a, b) ==
  CASE type = "vtkDataArray" -> DataLess(a, b)
    [] type = "vtkStringArray" -> StrLess(a, b)
    [] type = "vtkVariantArray" -> VariantLess(a, b)

ArrayTypes == {"vtkDataArray", "vtkStringArray", "vtkVariantArray"}

\* quantile definitions
InverseCDF == "InverseCDF"
InverseCDFAveragedSteps == "InverseCDFAveragedSteps"
QuantileDefinitions == {InverseCDF, InverseCDFAveragedSteps}

\* -------------------------------------------------------------- inputs
SeqsUpTo(S, m) == UNION {[1..l -> S] : l \in 0..m}

DataValues == {D(x) : x \in 1..MaxVal}
StringValues == {<<97>>, <<97, 98>>, <<98>>}
VariantValues == {[tag |-> "string", val |-> s] : s \in {<<97>>, <<97, 98>>}}

\* the data set of the median scenario: 1 2 2 3 4 5 5 5 6 7
Scenario == <<D(1), D(2), D(2), D(3), D(4), D(5), D(5), D(5), D(6), D(7)>>

Columns ==
  {[type |-> "vtkDataArray", vals |-> s] : s \in SeqsUpTo(DataValues, MaxRows) \cup {Scenario}}
  \cup {[type |-> "vtkStringArray", vals |-> s] : s \in SeqsUpTo(StringValues, MaxRows)}
  \cup {[type |-> "vtkVariantArray", vals |-> s] : s \in SeqsUpTo(VariantValues, MaxRows)}

\* value of the cardinality row, by array type
NoVal(type) ==
  CASE type = "vtkDataArray" -> NaN
    [] type = "vtkStringArray" -> <<>>
    [] type = "vtkVariantArray" -> [tag |-> "string", val |-> <<>>]

\* ------------------------------------------------------------------ state
VARIABLES
  NumberOfIntervals,    \* this->NumberOfIntervals
  QuantileDefinition,   \* this->QuantileDefinition
  inData,               \* the table last given to Learn: column name -> column
  meta,                 \* the model: sequence of named blocks (vtkMultiBlockDataSet)
  errorReported,        \* vtkErrorMacro was invoked by Derive
  outOfBounds,          \* Derive read a cdf or Value entry that does not exist
  quantileIndices,      \* Derive's rank pairs, one list per histogram block
  cdf,                  \* Derive's cdf arrays, one per histogram block
  assessed,             \* the last observation handed to the assess functor and its result
  tested                \* what the last Test computed for the requested column

vars == <<NumberOfIntervals, QuantileDefinition, inData, meta, errorReported,
          outOfBounds, quantileIndices, cdf, assessed, tested>>

\* the requests, in the order of the std::set; each holds one column of interest
Requests == <<"X">>

NoData == [c \in {} |-> 0]

NotAssessed == [done |-> FALSE]

NotTested == [done |-> FALSE]

\* ------------------------------------------------------------------ Learn
\* variant: a new key is appended, so the entries stay in order of first occurrence
MapIncrement_Unsorted(histogram, type, v) ==
  LET same == {i \in 1..Len(histogram) : histogram[i].key = v}
  IN  IF same # {}
        THEN [histogram EXCEPT ![CHOOSE i \in same : TRUE].count = @ + 1]
        ELSE Append(histogram, [key |-> v, count |-> 1])

\* ++ histogram[v] on a std::map kept as the sequence of (key, count) in key order
MapIncrement(histogram, type, v) ==
  LET pos == 1 + Cardinality({i \in 1..Len(histogram) : Less(type, histogram[i].key, v)})
  IN  IF pos <= Len(histogram) /\ ~Less(type, v, histogram[pos].key)
        THEN [histogram EXCEPT ![pos].count = @ + 1]
        ELSE SubSeq(histogram, 1, pos - 1) \o <<[key |-> v, count |-> 1]>>
               \o SubSeq(histogram, pos, Len(histogram))

\* the histogram after rows 0..nRow-1 of the column were counted
RECURSIVE CalcHistogram(_, _, _)
CalcHistogram(type, vals, nRow) ==
  IF nRow = 0 THEN <<>>
  ELSE MapIncrement(CalcHistogram(type, vals, nRow - 1), type, vals[nRow])

\* the histogram table of one column: row 0 is the cardinality row
HistogramTab(col) ==
  LET histogram == CalcHistogram(col.type, col.vals, Len(col.vals))
  IN  [Value |-> [r \in 0..Len(histogram) |->
                    IF r = 0 THEN NoVal(col.type) ELSE histogram[r].key],
       Cardinality |-> [r \in 0..Len(histogram) |->
                    IF r = 0 THEN -1 ELSE histogram[r].count]]

\* outMeta after the loop over the first nReq requests
RECURSIVE LearnBlocks(_, _)
LearnBlocks(data, nReq) ==
  IF nReq = 0 THEN <<>>
  ELSE LET col == Requests[nReq]
       IN  Append(LearnBlocks(data, nReq - 1),
                  [name |-> col, type |-> data[col].type, table |-> HistogramTab(data[col])])

\* Learn fills the output model of one run of the pipeline, which starts empty
Learn(data) ==
  /\ meta = <<>>
  /\ inData' = data
  /\ meta' = LearnBlocks(data, Len(Requests))
  /\ errorReported' = FALSE
  /\ outOfBounds' = FALSE
  /\ quantileIndices' = <<>>
  /\ cdf' = <<>>
  /\ assessed' = NotAssessed
  /\ tested' = NotTested
  /\ UNCHANGED <<NumberOfIntervals, QuantileDefinition>>

\* ------------------------------------------------------------ configuration
\* the setters are explored until the model is derived: no later operation reads them
HasQuantiles(m) == Len(m) >= 1 /\ m[Len(m)].name = "Quantiles"

SetNumberOfIntervals(N) ==
  /\ ~HasQuantiles(meta)
  /\ NumberOfIntervals' = N
  /\ UNCHANGED <<QuantileDefinition, inData, meta, errorReported, outOfBounds,
               quantileIndices, cdf, assessed, tested>>

SetQuantileDefinition(qd) ==
  /\ ~HasQuantiles(meta)
  /\ qd \in QuantileDefinitions
  /\ QuantileDefinition' = qd
  /\ UNCHANGED <<NumberOfIntervals, inData, meta, errorReported, outOfBounds,
               quantileIndices, cdf, assessed, tested>>

Init ==
  /\ QuantileDefinition = InverseCDFAveragedSteps
  /\ NumberOfIntervals = 4
  /\ inData = NoData
  /\ meta = <<>>
  /\ errorReported = FALSE
  /\ outOfBounds = FALSE
  /\ quantileIndices = <<>>
  /\ cdf = <<>>
  /\ assessed = NotAssessed
  /\ tested = NotTested

\* ------------------------------------------------------------------ Derive
\* a label is a text, preceded for the general case by the number i * dq = i / N
Named(text) == [number |-> <<>>, text |-> text]
General(i, N) == [number |-> <<i, N>>, text |-> "-quantile"]

\* variant: the index is shifted by one bit only ( i << 1 )
QuantileLabel_ShiftOne(i, N) ==
  LET quot == (2 * i) \div N
      rem == (2 * i) % N
  IN  IF rem # 0 THEN General(i, N)
      ELSE CASE quot = 0 -> Named("Minimum")
             [] quot = 1 -> Named("First Quartile")
             [] quot = 2 -> Named("Median")
             [] quot = 3 -> Named("Third Quartile")
             [] quot = 4 -> Named("Maximum")
             [] OTHER -> General(i, N)

\* the label of quantile i of N: div( i << 2, N ) selects the named quartiles
QuantileLabel(i, N) ==
  LET quot == (4 * i) \div N
      rem == (4 * i) % N
  IN  IF rem # 0 THEN General(i, N)
      ELSE CASE quot = 0 -> Named("Minimum")
             [] quot = 1 -> Named("First Quartile")
             [] quot = 2 -> Named("Median")
             [] quot = 3 -> Named("Third Quartile")
             [] quot = 4 -> Named("Maximum")
             [] OTHER -> General(i, N)

\* round( np ), ceil( np ) and floor( np + 1. ) for np = k * n / N >= 0
RoundNp(k, n, N) == (2 * k * n + N) \div (2 * N)
CeilNp(k, n, N) == (k * n + N - 1) \div N

\* variant: floor( np ), the increment forgotten
FloorNpPlus1_NoIncrement(k, n, N) == (k * n) \div N

FloorNpPlus1(k, n, N) == (k * n) \div N + 1

\* what a read outside an array may return
Junk == [cdf : {-1, 0, 1}, fresh : BOOLEAN]

JunkValue(junk, type) ==
  IF ~junk.fresh THEN NoVal(type)
  ELSE CASE type = "vtkDataArray" -> D(1)
         [] type = "vtkStringArray" -> <<97>>
         [] type = "vtkVariantArray" -> [tag |-> "string", val |-> <<97>>]

NumberOfRows(table) == Cardinality(DOMAIN table.Value)

\* variant: the loop starts at row 0 and counts the cardinality row in
CalcCDF_FromRowZero(table) ==
  LET card == table.Cardinality
      sum[r \in 0..(NumberOfRows(table) - 1)] ==
        IF r = 0 THEN card[0] ELSE sum[r - 1] + card[r]
  IN  [r \in 1..(NumberOfRows(table) - 1) |-> sum[r]]

\* cdf[r] for the rows 1..nRowHist-1 that the loop fills
CalcCDF(table) ==
  LET card == table.Cardinality
      sum[r \in 0..(NumberOfRows(table) - 1)] == IF r = 0 THEN 0 ELSE sum[r - 1] + card[r]
  IN  [r \in 1..(NumberOfRows(table) - 1) |-> sum[r]]

\* cdf[rank] as the program reads it
CdfAt(c, junk, rank) == IF rank \in DOMAIN c THEN c[rank] ELSE junk.cdf

\* variant: the search also moves on when the cdf equals the index ( >= for > )
AdvanceRank_OnEqual(c, nRowHist, junk, qIdx, rank0) ==
  LET Adv[rank \in 1..nRowHist] ==
        IF qIdx >= CdfAt(c, junk, rank)
          THEN IF rank + 1 > nRowHist
                 THEN [rank |-> rank + 1, err |-> TRUE, oob |-> TRUE]
                 ELSE [Adv[rank + 1] EXCEPT !.oob = @ \/ rank \notin DOMAIN c]
          ELSE [rank |-> rank, err |-> FALSE, oob |-> rank \notin DOMAIN c]
  IN  Adv[rank0]

\* while ( qIdx > cdf[rank] ) { ++ rank; if ( rank > nRowHist ) error }
AdvanceRank(c, nRowHist, junk, qIdx, rank0) ==
  LET Adv[rank \in 1..nRowHist] ==
        IF qIdx > CdfAt(c, junk, rank)
          THEN IF rank + 1 > nRowHist
                 THEN [rank |-> rank + 1, err |-> TRUE, oob |-> TRUE]
                 ELSE [Adv[rank + 1] EXCEPT !.oob = @ \/ rank \notin DOMAIN c]
          ELSE [rank |-> rank, err |-> FALSE, oob |-> rank \notin DOMAIN c]
  IN  Adv[rank0]

\* variant: the two definitions exchanged, round for InverseCDF and ceil otherwise
FirstQuantileIndex_Swapped(k, n, N, qd) ==
  IF qd = InverseCDFAveragedSteps THEN CeilNp(k, n, N) ELSE RoundNp(k, n, N)

\* the first quantile index of interior quantile k
FirstQuantileIndex(k, n, N, qd) ==
  IF qd = InverseCDFAveragedSteps THEN RoundNp(k, n, N) ELSE CeilNp(k, n, N)

\* the search for the second quantile index, from the result a1 of the first
SecondRank(c, nRowHist, n, N, qd, junk, k, a1) ==
  IF a1.err THEN a1
  ELSE IF qd = InverseCDFAveragedSteps /\ FirstQuantileIndex(k, n, N, qd) # FloorNpPlus1(k, n, N)
    THEN AdvanceRank(c, nRowHist, junk, FloorNpPlus1(k, n, N), a1.rank)
    ELSE [rank |-> a1.rank, err |-> FALSE, oob |-> FALSE]

\* the end of one iteration: the pair of ranks is pushed, or the error ends Derive
PushPair(prev, a1, a2) ==
  IF a1.err THEN [prev EXCEPT !.rank = a1.rank, !.err = TRUE, !.oob = TRUE]
  ELSE IF a2.err THEN [prev EXCEPT !.rank = a2.rank, !.err = TRUE, !.oob = TRUE]
  ELSE [pairs |-> Append(prev.pairs, <<a1.rank, a2.rank>>),
        rank |-> a2.rank, err |-> FALSE,
        oob |-> prev.oob \/ a1.oob \/ a2.oob]

\* iteration k of the loop, a1 being the result of the search for the first index
InteriorSecond(prev, c, nRowHist, n, N, qd, junk, k, a1) ==
  PushPair(prev, a1, SecondRank(c, nRowHist, n, N, qd, junk, k, a1))

\* iteration k of the loop over the interior quantiles, from the state prev
InteriorStep(prev, c, nRowHist, n, N, qd, junk, k) ==
  IF prev.err THEN prev
  ELSE InteriorSecond(prev, c, nRowHist, n, N, qd, junk, k,
                      AdvanceRank(c, nRowHist, junk, FirstQuantileIndex(k, n, N, qd),
                                  prev.rank))

\* the loop over the interior quantiles 0 < k < N; the rank is never reset
InteriorQuantiles(c, nRowHist, n, N, qd, junk) ==
  LET Loop[k \in 0..(N - 1)] ==
        IF k = 0
          THEN [pairs |-> << <<1, 1>> >>, rank |-> 1, err |-> FALSE, oob |-> FALSE]
          ELSE InteriorStep(Loop[k - 1], c, nRowHist, n, N, qd, junk, k)
  IN  Loop[N - 1]

\* variant: the rank is taken as a 0-based row
ValueAt_ZeroBased(table, type, junk, r) ==
  IF (r - 1) \in DOMAIN table.Value THEN table.Value[r - 1] ELSE JunkValue(junk, type)

\* dvals->GetTuple1( r ) / svals->GetValue( r ) / vvals->GetValue( r )
ValueAt(table, type, junk, r) ==
  IF r \in DOMAIN table.Value THEN table.Value[r] ELSE JunkValue(junk, type)

\* the quantile value stored for one pair of ranks
QuantileValue(table, type, qd, junk, pair) ==
  IF type = "vtkDataArray" /\ qd = InverseCDFAveragedSteps
    THEN HalfSum(ValueAt(table, type, junk, pair[1]), ValueAt(table, type, junk, pair[2]))
    ELSE ValueAt(table, type, junk, pair[1])

\* the cardinality n: the last cdf entry, 0 when there is no real entry
Total(c, nRowHist) == IF nRowHist > 1 THEN c[nRowHist - 1] ELSE 0

\* the histogram table with n in row 0 and the probability column
WithProbabilities(table, n) ==
  [Value |-> table.Value,
   Cardinality |-> [table.Cardinality EXCEPT ![0] = n],
   P |-> [r \in DOMAIN table.Value |->
            IF r = 0 THEN <<-1, 1>> ELSE <<table.Cardinality[r], n>>]]

\* the rank pairs of all N + 1 quantiles
AllIndices(interior, nRowHist) == Append(interior.pairs, <<nRowHist - 1, nRowHist - 1>>)

\* a rank pair reads a row the Value column does not have
ReadsOutside(table, indices) ==
  \E i \in 1..Len(indices) :
    indices[i][1] \notin DOMAIN table.Value \/ indices[i][2] \notin DOMAIN table.Value

\* what one iteration over the primary tables leaves, given its cdf and rank pairs
BlockResult(block, N, qd, junk, c, interior) ==
  [table |-> WithProbabilities(block.table, Total(c, NumberOfRows(block.table))),
   cdf |-> c,
   err |-> interior.err,
   indices |-> IF interior.err THEN interior.pairs
               ELSE AllIndices(interior, NumberOfRows(block.table)),
   oob |-> interior.oob
             \/ (~interior.err
                   /\ ReadsOutside(block.table, AllIndices(interior, NumberOfRows(block.table)))),
   column |-> IF interior.err THEN <<>>
              ELSE [k \in 0..N |->
                      QuantileValue(block.table, block.type, qd, junk,
                                    AllIndices(interior, NumberOfRows(block.table))[k + 1])]]

DeriveWithCDF(block, N, qd, junk, c) ==
  BlockResult(block, N, qd, junk, c,
              InteriorQuantiles(c, NumberOfRows(block.table),
                                Total(c, NumberOfRows(block.table)), N, qd, junk))

\* one iteration of the loop over the primary tables
DeriveBlock(block, N, qd, junk) == DeriveWithCDF(block, N, qd, junk, CalcCDF(block.table))

\* the state of Derive after block nB, d being what the iteration computed
AfterBlock(prev, block, d, nB) ==
  [meta |-> [prev.meta EXCEPT ![nB].table = d.table],
   columns |-> IF d.err THEN prev.columns
               ELSE Append(prev.columns,
                           [name |-> block.name, type |-> block.type, vals |-> d.column]),
   indices |-> Append(prev.indices, d.indices),
   cdf |-> Append(prev.cdf, d.cdf),
   err |-> d.err,
   oob |-> prev.oob \/ d.oob]

\* an error in one block returns from Derive: the later blocks are not visited
NextBlock(prev, inMeta, N, qd, junk, nB) ==
  IF prev.err THEN prev
  ELSE AfterBlock(prev, inMeta[nB], DeriveBlock(inMeta[nB], N, qd, junk), nB)

\* the state of Derive after the first nB blocks
RECURSIVE DeriveLoop(_, _, _, _, _)
DeriveLoop(inMeta, N, qd, junk, nB) ==
  IF nB = 0
    THEN [meta |-> inMeta, columns |-> <<>>, indices |-> <<>>, cdf |-> <<>>,
          err |-> FALSE, oob |-> FALSE]
    ELSE NextBlock(DeriveLoop(inMeta, N, qd, junk, nB - 1), inMeta, N, qd, junk, nB)

\* the quantile table, appended as the last block unless Derive returned on an error
StoreQuantiles(d, N) ==
  /\ meta' = IF d.err THEN d.meta
             ELSE Append(d.meta,
                         [name |-> "Quantiles", type |-> "vtkTable",
                          table |-> [Quantile |-> [i \in 0..N |-> QuantileLabel(i, N)],
                                     columns |-> d.columns]])
  /\ errorReported' = d.err
  /\ outOfBounds' = d.oob
  /\ quantileIndices' = d.indices
  /\ cdf' = d.cdf

Derive ==
  /\ Len(meta) >= 1
  /\ ~HasQuantiles(meta)
  /\ \E junk \in Junk :
       StoreQuantiles(DeriveLoop(meta, NumberOfIntervals, QuantileDefinition, junk, Len(meta)),
                      NumberOfIntervals)
  /\ assessed' = NotAssessed
  /\ tested' = NotTested
  /\ UNCHANGED <<NumberOfIntervals, QuantileDefinition, inData>>

\* ------------------------------------------------------------------ Assess
\* the three assess functors: Quantiles is the column of n breakpoints, rows 0..n-1

\* variant: the scan stops one breakpoint early ( q < n - 1 )
DataArrayQuantizer_StopsEarly(Quantiles, dval) ==
  LET n == Cardinality(DOMAIN Quantiles)
      Scan[q \in 1..n] ==
        IF q < n - 1 /\ DataLess(Quantiles[q], dval) THEN Scan[q + 1] ELSE q
  IN  IF DataLess(dval, Quantiles[0]) THEN 0 ELSE Scan[1]

\* variant: the scan advances on >= rather than >
DataArrayQuantizer_AdvanceOnEqual(Quantiles, dval) ==
  LET n == Cardinality(DOMAIN Quantiles)
      Scan[q \in 1..n] ==
        IF q < n /\ ~DataLess(dval, Quantiles[q]) THEN Scan[q + 1] ELSE q
  IN  IF DataLess(dval, Quantiles[0]) THEN 0 ELSE Scan[1]

\* variant: the scan compares the wrong way round ( dval < breakpoint )
DataArrayQuantizer_Reversed(Quantiles, dval) ==
  LET n == Cardinality(DOMAIN Quantiles)
      Scan[q \in 1..n] ==
        IF q < n /\ DataLess(dval, Quantiles[q]) THEN Scan[q + 1] ELSE q
  IN  IF DataLess(dval, Quantiles[0]) THEN 0 ELSE Scan[1]

\* variant: the scan starts at breakpoint 0
DataArrayQuantizer_FromZero(Quantiles, dval) ==
  LET n == Cardinality(DOMAIN Quantiles)
      Scan[q \in 0..n] ==
        IF q < n /\ DataLess(Quantiles[q], dval) THEN Scan[q + 1] ELSE q
  IN  IF DataLess(dval, Quantiles[0]) THEN 0 ELSE Scan[0]

DataArrayQuantizer(Quantiles, dval) ==
  LET n == Cardinality(DOMAIN Quantiles)
      Scan[q \in 1..n] ==
        IF q < n /\ DataLess(Quantiles[q], dval) THEN Scan[q + 1] ELSE q
  IN  IF DataLess(dval, Quantiles[0]) THEN 0 ELSE Scan[1]

StringArrayQuantizer(Quantiles, sval) ==
  LET n == Cardinality(DOMAIN Quantiles)
      Scan[q \in 1..n] ==
        IF q < n /\ StrLess(Quantiles[q], sval) THEN Scan[q + 1] ELSE q
  IN  IF StrLess(sval, Quantiles[0]) THEN 0 ELSE Scan[1]

VariantArrayQuantizer(Quantiles, vval) ==
  LET n == Cardinality(DOMAIN Quantiles)
      Scan[q \in 1..n] ==
        IF q < n /\ VariantLess(Quantiles[q], vval) THEN Scan[q + 1] ELSE q
  IN  IF VariantLess(vval, Quantiles[0]) THEN 0 ELSE Scan[1]

\* the functor SelectAssessFunctor picks for a (data, quantiles) type
Quantizer(type, Quantiles, val) ==
  CASE type = "vtkDataArray" -> DataArrayQuantizer(Quantiles, val)
    [] type = "vtkStringArray" -> StringArrayQuantizer(Quantiles, val)
    [] type = "vtkVariantArray" -> VariantArrayQuantizer(Quantiles, val)

\* observations handed to the functor, by array type
Observations(type) ==
  CASE type = "vtkDataArray" -> 1..(D(MaxVal) + 1)
    [] type = "vtkStringArray" -> {<<>>, <<97>>, <<97, 98>>, <<98>>, <<99>>}
    [] type = "vtkVariantArray" ->
         {[tag |-> "string", val |-> s] : s \in {<<>>, <<97>>, <<97, 98>>, <<98>>}}

\* the quantile column of a variable, or <<>> when the table has none
QuantileColumn(m, varName) ==
  LET cols == m[Len(m)].table.columns
      found == {i \in 1..Len(cols) : cols[i].name = varName}
  IN  IF found = {} THEN <<>> ELSE <<cols[CHOOSE i \in found : TRUE]>>

\* SelectAssessFunctor for the requested variable, then the functor on one row
Assess(varName, type, val) ==
  /\ HasQuantiles(meta)
  /\ LET found == QuantileColumn(meta, varName)
     IN  IF found # <<>> /\ found[1].type = type
           THEN assessed' = [done |-> TRUE, type |-> type, val |-> val,
                             q |-> Quantizer(type, found[1].vals, val)]
           ELSE assessed' = assessed
  /\ UNCHANGED <<NumberOfIntervals, QuantileDefinition, inData, meta, errorReported,
                 outOfBounds, quantileIndices, cdf, tested>>

\* ------------------------------------------------------------------ Test
\* a probability is an exact fraction <<numerator, denominator>>
FracLess(a, b) == a[1] * b[2] < b[1] * a[2]

\* fabs( a - b )
FracDist(a, b) ==
  LET num == a[1] * b[2] - b[1] * a[2]
  IN  <<IF num < 0 THEN -num ELSE num, a[2] * b[2]>>

\* the decimal digits of a whole number, as character codes
RECURSIVE Digits(_)
Digits(i) == IF i < 10 THEN <<48 + i>> ELSE Append(Digits(i \div 10), 48 + (i % 10))

\* vtkVariant( v ).ToString(): a double prints as its shortest decimal form
ValueToString(type, v) ==
  CASE type = "vtkDataArray" ->
         IF v = NaN THEN <<110, 97, 110>>
         ELSE Digits(v \div 2) \o (IF v % 2 = 1 THEN <<46, 53>> ELSE <<>>)
    [] type = "vtkStringArray" -> v
    [] type = "vtkVariantArray" -> v.val

\* cdfEmpirical[ToString( row j )] += inv_card over rows 0..nRow-1 of the column;
\* the map is keyed by std::string and each sum is kept as a count of inv_card
RECURSIVE CalcEmpiricalPDF(_, _, _)
CalcEmpiricalPDF(type, vals, nRow) ==
  IF nRow = 0 THEN <<>>
  ELSE MapIncrement(CalcEmpiricalPDF(type, vals, nRow - 1), "vtkStringArray",
                    ValueToString(type, vals[nRow]))

\* sum += cit->second; cit->second = sum, in the order of the map
Integrate(pdf) ==
  LET sum[i \in 0..Len(pdf)] == IF i = 0 THEN 0 ELSE sum[i - 1] + pdf[i].count
  IN  [i \in 1..Len(pdf) |-> [key |-> pdf[i].key, count |-> sum[i]]]

\* cdfEmpirical.insert( ( key, -1 ) ): a new entry takes its predecessor's value, or 0
MapInsert(ecdf, key) ==
  LET pos == 1 + Cardinality({i \in 1..Len(ecdf) : StrLess(ecdf[i].key, key)})
  IN  IF pos <= Len(ecdf) /\ ~StrLess(key, ecdf[pos].key)
        THEN ecdf
        ELSE SubSeq(ecdf, 1, pos - 1)
               \o <<[key |-> key, count |-> IF pos = 1 THEN 0 ELSE ecdf[pos - 1].count]>>
               \o SubSeq(ecdf, pos, Len(ecdf))

\* the empirical CDF after the quantiles 0..nQ-1 were inserted
RECURSIVE InsertQuantiles(_, _, _)
InsertQuantiles(ecdf, quantiles, nQ) ==
  IF nQ = 0 THEN ecdf
  ELSE MapInsert(InsertQuantiles(ecdf, quantiles, nQ - 1), quantiles[nQ - 1])

\* variant: the cursor stops at a breakpoint equal to the value ( > for >= )
AdvanceQ_Strict(quantiles, nQuant, key, currentQ) ==
  LET Adv[q \in 0..nQuant] ==
        IF q < nQuant /\ StrLess(quantiles[q], key) THEN Adv[q + 1] ELSE q
  IN  Adv[currentQ]

\* while ( currentQ < nQuant && cit->first >= quantiles[currentQ] ) ++ currentQ
AdvanceQ(quantiles, nQuant, key, currentQ) ==
  LET Adv[q \in 0..nQuant] ==
        IF q < nQuant /\ ~StrLess(key, quantiles[q]) THEN Adv[q + 1] ELSE q
  IN  Adv[currentQ]

\* mcdf = currentQ * inv_nq, with inv_nq = 1. / nQuant
ModelCDF(currentQ, nQuant) == <<currentQ, nQuant>>

\* the end of one iteration of the walk, currentQ and mcdf being its new values
WalkPoint(prev, nRowData, entry, currentQ, mcdf) ==
  [currentQ |-> currentQ,
   mcdf |-> mcdf,
   Dmn |-> IF FracLess(prev.Dmn, FracDist(<<entry.count, nRowData>>, mcdf))
             THEN FracDist(<<entry.count, nRowData>>, mcdf)
             ELSE prev.Dmn,
   points |-> Append(prev.points,
                     [key |-> entry.key, ecdf |-> <<entry.count, nRowData>>,
                      currentQ |-> currentQ, mcdf |-> mcdf])]

\* one iteration of the walk, q being where the while loop leaves the cursor
WalkAdvanced(prev, quantiles, nQuant, nRowData, entry, q) ==
  WalkPoint(prev, nRowData, entry, q, ModelCDF(q, nQuant))

\* one iteration of the loop over all CDF jump values
WalkStep(prev, quantiles, nQuant, nRowData, entry) ==
  IF ~StrLess(entry.key, quantiles[0])
    THEN WalkAdvanced(prev, quantiles, nQuant, nRowData, entry,
                      AdvanceQ(quantiles, nQuant, entry.key, prev.currentQ))
    ELSE WalkPoint(prev, nRowData, entry, prev.currentQ, prev.mcdf)

\* the walk over the first nE entries of the merged empirical CDF
RECURSIVE Walk(_, _, _, _, _)
Walk(ecdf, quantiles, nQuant, nRowData, nE) ==
  IF nE = 0
    THEN [currentQ |-> 0, mcdf |-> <<0, 1>>, Dmn |-> <<0, 1>>, points |-> <<>>]
    ELSE WalkStep(Walk(ecdf, quantiles, nQuant, nRowData, nE - 1),
                  quantiles, nQuant, nRowData, ecdf[nE])


\* quantiles[i] = quantileTab->GetValueByName( i, varName ).ToString()
QuantileStrings(quantCol) ==
  [i \in DOMAIN quantCol.vals |-> ValueToString(quantCol.type, quantCol.vals[i])]

\* the row Test reports for one variable, merged being the empirical CDF with
\* the quantiles inserted
TestRow(col, quantiles, nQuant, merged) ==
  [done |-> TRUE, reported |-> TRUE, column |-> col, quantiles |-> quantiles,
   nQuant |-> nQuant,
   walk |-> Walk(merged, quantiles, nQuant, Len(col.vals), Len(merged))]

\* the body of the loop over the requests for one variable
TestColumn(col, quantiles, nQuant) ==
  TestRow(col, quantiles, nQuant,
          InsertQuantiles(Integrate(CalcEmpiricalPDF(col.type, col.vals, Len(col.vals))),
                          quantiles, nQuant))

\* Test returns at once without a quantile table; a variable missing from the
\* data or the quantile table, or whose empirical CDF does not sum to 1 (a table
\* of no rows), gets no row in the output.  The Kolmogorov-Smirnov column is
\* sqrt( nRowData ) * Dmn and is not kept.
Test(data) ==
  /\ HasQuantiles(meta)
  /\ LET varName == Requests[1]
         found == QuantileColumn(meta, varName)
     IN  IF varName \notin DOMAIN data \/ found = <<>> \/ Len(data[varName].vals) = 0
           THEN tested' = [done |-> TRUE, reported |-> FALSE]
           ELSE tested' = TestColumn(data[varName], QuantileStrings(found[1]),
                                     Cardinality(DOMAIN meta[Len(meta)].table.Quantile))
  /\ UNCHANGED <<NumberOfIntervals, QuantileDefinition, inData, meta, errorReported,
                 outOfBounds, quantileIndices, cdf, assessed>>

\* ------------------------------------------------------------ specification
Tables == {t \in [{Requests[i] : i \in 1..Len(Requests)} -> Columns] :
             \A a, b \in DOMAIN t : Len(t[a].vals) = Len(t[b].vals)}

Next ==
  \/ \E N \in 1..MaxIntervals : SetNumberOfIntervals(N)
  \/ \E qd \in QuantileDefinitions : SetQuantileDefinition(qd)
  \/ \E data \in Tables : Learn(data)
  \/ Derive
  \/ \E type \in ArrayTypes : \E val \in Observations(type) : Assess(Requests[1], type, val)

Spec == Init /\ [][Next]_vars

\* ------------------------------------------------ Assess on a given model
\* values a breakpoint may take, by array type
BreakValues(type) ==
  CASE type = "vtkDataArray" -> D(1)..D(MaxVal)
    [] type = "vtkStringArray" -> StringValues
    [] type = "vtkVariantArray" -> VariantValues

\* the ascending columns of N + 1 breakpoints
AscendingTables(type, N) ==
  {t \in [0..N -> BreakValues(type)] :
     \A i \in 0..N : \A j \in 0..N : i < j => ~Less(type, t[j], t[i])}

\* a model holding only a quantile table, as SelectAssessFunctor accepts it
InitQuantizer ==
  /\ QuantileDefinition = InverseCDFAveragedSteps
  /\ NumberOfIntervals = 4
  /\ inData = NoData
  /\ \E type \in ArrayTypes : \E N \in 1..MaxTable : \E t \in AscendingTables(type, N) :
       meta = << [name |-> "Quantiles", type |-> "vtkTable",
                  table |-> [Quantile |-> [i \in 0..N |-> QuantileLabel(i, N)],
                             columns |-> << [name |-> Requests[1], type |-> type,
                                             vals |-> t] >>]] >>
  /\ errorReported = FALSE
  /\ outOfBounds = FALSE
  /\ quantileIndices = <<>>
  /\ cdf = <<>>
  /\ assessed = NotAssessed
  /\ tested = NotTested

NextQuantizer ==
  \E type \in ArrayTypes : \E val \in Observations(type) : Assess(Requests[1], type, val)

SpecQuantizer == InitQuantizer /\ [][NextQuantizer]_vars

\* ------------------------------------------------ Learn, Derive, then Test
\* numeric observations of one and of two digits
TestValues == {D(2), D(9), D(10)}

TestColumns ==
  {[type |-> "vtkDataArray", vals |-> s] : s \in SeqsUpTo(TestValues, MaxTestRows)}
  \cup {[type |-> "vtkStringArray", vals |-> s] : s \in SeqsUpTo(StringValues, MaxTestRows)}

TestTables == {[c \in {Requests[1]} |-> col] : col \in TestColumns}

\* a data set other than the learned one: values below, between and above it
Probe(type) ==
  CASE type = "vtkDataArray" -> <<D(1), D(5), D(11)>>
    [] type = "vtkStringArray" -> <<<<96>>, <<97, 97>>, <<99>>>>
    [] type = "vtkVariantArray" -> <<>>

\* the table given to Test: the learned one, or the probe of the model's type
TestChoices == {"learned", "probe"}

TestInput(choice) ==
  IF choice = "learned" \/ meta = <<>> THEN inData
  ELSE [c \in {Requests[1]} |-> [type |-> meta[1].type, vals |-> Probe(meta[1].type)]]

NextTest ==
  \/ \E N \in 1..MaxIntervals : SetNumberOfIntervals(N)
  \/ \E qd \in QuantileDefinitions : SetQuantileDefinition(qd)
  \/ \E data \in TestTables : Learn(data)
  \/ Derive
  \/ \E choice \in TestChoices : Test(TestInput(choice))

SpecTest == Init /\ [][NextTest]_vars

\* ------------------------------------ Derive on a model of several blocks
\* the histograms of the blocks: those of the numeric columns of up to
\* MaxBlockRows rows, the one with only the cardinality row included
BlockColumns ==
  {[type |-> "vtkDataArray", vals |-> s] : s \in SeqsUpTo(DataValues, MaxBlockRows)}

BlockNames == <<"X", "Y">>

\* an input model of one histogram block per name, not yet derived
InitDerive ==
  /\ QuantileDefinition = InverseCDFAveragedSteps
  /\ NumberOfIntervals = 4
  /\ inData = NoData
  /\ \E cols \in [1..Len(BlockNames) -> BlockColumns] :
       meta = [b \in 1..Len(BlockNames) |->
                 [name |-> BlockNames[b], type |-> cols[b].type,
                  table |-> HistogramTab(cols[b])]]
  /\ errorReported = FALSE
  /\ outOfBounds = FALSE
  /\ quantileIndices = <<>>
  /\ cdf = <<>>
  /\ assessed = NotAssessed
  /\ tested = NotTested

NextDerive ==
  \/ \E N \in 1..MaxIntervals : SetNumberOfIntervals(N)
  \/ \E qd \in QuantileDefinitions : SetQuantileDefinition(qd)
  \/ Derive

SpecDerive == InitDerive /\ [][NextDerive]_vars

\* ------------------------------------------------------------------ claims
\* the breakpoints of the requested variable and their number of intervals
Breakpoints == QuantileColumn(meta, Requests[1])[1].vals
Intervals == Cardinality(DOMAIN Breakpoints) - 1

\* the smallest index from lo on whose breakpoint is >= val, or N + 1
FirstAtLeast(type, Q, lo, val) ==
  LET N == Cardinality(DOMAIN Q) - 1
      S == {i \in lo..N : ~Less(type, Q[i], val)}
  IN  IF S = {} THEN N + 1 ELSE CHOOSE i \in S : \A j \in S : i <= j

\* C1 as stated: every index the quantizer returns lies in 0..N.
C1_AsStated ==
  assessed.done => assessed.q \in 0..Intervals

\* C1: the quantizer returns an index in 0..N+1, and N+1 exactly for the
\* observations strictly greater than the last breakpoint.
C1_IndexRange ==
  assessed.done =>
    /\ assessed.q \in 0..(Intervals + 1)
    /\ assessed.q = Intervals + 1
         <=> Less(assessed.type, Breakpoints[Intervals], assessed.val)

C1_Witness ==
  /\ assessed.done
  /\ Less(assessed.type, Breakpoints[Intervals], assessed.val)
  /\ assessed.q = Intervals + 1

\* C2 as stated: 0 below breakpoint[0], otherwise the smallest index from 0 on
\* whose breakpoint is >= the observation.
C2_AsStated ==
  assessed.done =>
    IF Less(assessed.type, assessed.val, Breakpoints[0])
      THEN assessed.q = 0
      ELSE FirstAtLeast(assessed.type, Breakpoints, 0, assessed.val) <= Intervals
             => assessed.q = FirstAtLeast(assessed.type, Breakpoints, 0, assessed.val)

\* C2: 0 below breakpoint[0], otherwise the smallest index from 1 on whose
\* breakpoint is >= the observation, and N+1 when there is none; an observation
\* equal to breakpoint[0] gets index 1.
C2_SmallestIndexFromOne ==
  assessed.done =>
    /\ assessed.q = IF Less(assessed.type, assessed.val, Breakpoints[0])
                      THEN 0
                      ELSE FirstAtLeast(assessed.type, Breakpoints, 1, assessed.val)
    /\ assessed.val = Breakpoints[0] => assessed.q = 1

C2_Witness ==
  /\ assessed.done
  /\ assessed.val = Breakpoints[0]
  /\ assessed.q = 1

\* C4: for a fixed table, an observation b >= a never gets a smaller index than a.
C4_Monotone ==
  assessed.done =>
    \A b \in Observations(assessed.type) :
      ~Less(assessed.type, b, assessed.val)
        => assessed.q <= Quantizer(assessed.type, Breakpoints, b)

C4_Witness ==
  /\ assessed.done
  /\ assessed.q >= 1
  /\ \E b \in Observations(assessed.type) :
       /\ Less(assessed.type, assessed.val, b)
       /\ assessed.q < Quantizer(assessed.type, Breakpoints, b)

\* ------------------------------------------- claims on Learn then Derive
\* the requested column, its histogram table and whether Derive has run on it
Column == inData[Requests[1]]
Histogram == meta[1].table
Learned == meta # <<>> /\ inData # NoData
DeriveRan == quantileIndices # <<>>
NumericRun == Learned /\ Column.type = "vtkDataArray" /\ Len(Column.vals) >= 1
Labels == meta[Len(meta)].table.Quantile

\* C3 as stated: the first derived breakpoint quantizes to 0 and the last to N.
C3_AsStated ==
  (NumericRun /\ assessed.done) =>
    /\ assessed.val = Breakpoints[0] => assessed.q = 0
    /\ assessed.val = Breakpoints[Intervals] => assessed.q = Intervals

\* C3: the first derived breakpoint (the minimum) quantizes to 1, never 0; the
\* last (the maximum) quantizes to the smallest index from 1 on whose breakpoint
\* equals the maximum, which is N when breakpoint N-1 is below the maximum.
C3_RoundTrip ==
  (NumericRun /\ assessed.done) =>
    /\ assessed.val = Breakpoints[0] => assessed.q = 1
    /\ assessed.val = Breakpoints[Intervals] =>
         /\ assessed.q \in 1..Intervals
         /\ Breakpoints[assessed.q] = Breakpoints[Intervals]
         /\ \A i \in 1..(assessed.q - 1) : Breakpoints[i] < Breakpoints[Intervals]
         /\ (Intervals = 1 \/ Breakpoints[Intervals - 1] < Breakpoints[Intervals])
              => assessed.q = Intervals

C3_Witness ==
  /\ NumericRun /\ assessed.done
  /\ Intervals >= 2
  /\ Breakpoints[0] < Breakpoints[Intervals]
  /\ assessed.val = Breakpoints[Intervals]
  /\ assessed.q = Intervals

\* C5: from a histogram with a real entry Derive writes N+1 labels and N+1
\* breakpoints; breakpoint 0 is the first entry's value and breakpoint N the
\* last entry's value.
C5_EndPoints ==
  (Learned /\ DeriveRan /\ NumberOfRows(Histogram) >= 2) =>
    /\ HasQuantiles(meta)
    /\ DOMAIN Labels = 0..NumberOfIntervals
    /\ DOMAIN Breakpoints = 0..NumberOfIntervals
    /\ Breakpoints[0] = Histogram.Value[1]
    /\ Breakpoints[NumberOfIntervals] = Histogram.Value[NumberOfRows(Histogram) - 1]

C5_Witness ==
  /\ Learned /\ DeriveRan /\ HasQuantiles(meta)
  /\ Column.type = "vtkDataArray"
  /\ QuantileDefinition = InverseCDFAveragedSteps
  /\ NumberOfRows(Histogram) >= 3
  /\ NumberOfIntervals >= 2
  /\ Breakpoints[0] # Breakpoints[NumberOfIntervals]

\* C6: the breakpoints derived for a numeric column are non-decreasing in k.
C6_NonDecreasing ==
  (NumericRun /\ HasQuantiles(meta)) =>
    \A i \in 0..Intervals : \A j \in 0..Intervals :
      i < j => Breakpoints[i] <= Breakpoints[j]

C6_Witness ==
  /\ NumericRun /\ HasQuantiles(meta)
  /\ Intervals >= 3
  /\ \E i \in 1..(Intervals - 1) :
       Breakpoints[i - 1] < Breakpoints[i] /\ Breakpoints[i] < Breakpoints[i + 1]

\* the observation at sorted position p (1-based) of a numeric column
SortedAt(vals, p) ==
  CHOOSE v \in {vals[i] : i \in 1..Len(vals)} :
    /\ Cardinality({i \in 1..Len(vals) : vals[i] < v}) < p
    /\ p <= Cardinality({i \in 1..Len(vals) : vals[i] <= v})

\* the breakpoints of the run's histogram under either quantile definition
QuantilesUnder(qd) ==
  IF qd = QuantileDefinition THEN Breakpoints
  ELSE DeriveBlock(meta[1], NumberOfIntervals, qd, CHOOSE junk \in Junk : TRUE).column

\* the interior k for which np = k * n / N is an integer
IntegerNp == {k \in 1..(NumberOfIntervals - 1) : (k * Len(Column.vals)) % NumberOfIntervals = 0}

\* C7 as stated: where np is an integer the two definitions give the same value.
C7_AsStated ==
  (NumericRun /\ HasQuantiles(meta)) =>
    \A k \in IntegerNp :
      QuantilesUnder(InverseCDF)[k] = QuantilesUnder(InverseCDFAveragedSteps)[k]

\* C7: where np is an integer, InverseCDF gives the observation at sorted
\* position np and InverseCDFAveragedSteps the midpoint of the observations at
\* sorted positions np and np + 1, so the two agree exactly when these are equal.
C7_IntegerNp ==
  (NumericRun /\ HasQuantiles(meta)) =>
    \A k \in IntegerNp :
      LET np == (k * Len(Column.vals)) \div NumberOfIntervals
          lower == SortedAt(Column.vals, np)
          upper == SortedAt(Column.vals, np + 1)
      IN  /\ QuantilesUnder(InverseCDF)[k] = lower
          /\ QuantilesUnder(InverseCDFAveragedSteps)[k] = HalfSum(lower, upper)
          /\ QuantilesUnder(InverseCDF)[k] = QuantilesUnder(InverseCDFAveragedSteps)[k]
               <=> lower = upper

C7_Witness ==
  /\ NumericRun /\ HasQuantiles(meta)
  /\ \E k \in IntegerNp :
       QuantilesUnder(InverseCDF)[k] # QuantilesUnder(InverseCDFAveragedSteps)[k]

\* C8: 1 2 2 3 4 5 5 5 6 7 with N = 4 gives 1, 2, 4, 5, 7 under InverseCDF and
\* 1, 2, 4.5, 5, 7 under InverseCDFAveragedSteps, labelled Minimum .. Maximum.
C8_Scenario ==
  (Learned /\ Column.vals = Scenario /\ Column.type = "vtkDataArray"
     /\ NumberOfIntervals = 4 /\ DeriveRan) =>
    /\ HasQuantiles(meta)
    /\ Breakpoints =
         [k \in 0..4 |->
            IF QuantileDefinition = InverseCDF
              THEN <<D(1), D(2), D(4), D(5), D(7)>>[k + 1]
              ELSE <<D(1), D(2), D(4) + 1, D(5), D(7)>>[k + 1]]
    /\ Labels[0].text = "Minimum" /\ Labels[2].text = "Median" /\ Labels[4].text = "Maximum"

C8_Witness ==
  /\ Learned /\ Column.type = "vtkDataArray" /\ Column.vals = Scenario
  /\ NumberOfIntervals = 4 /\ HasQuantiles(meta)
  /\ QuantileDefinition = InverseCDFAveragedSteps
  /\ Breakpoints[2] = D(4) + 1

\* the label the claim gives position k of N
ClaimedLabel(k, N) ==
  IF (4 * k) % N = 0
    THEN Named(<<"Minimum", "First Quartile", "Median", "Third Quartile", "Maximum">>
                 [(4 * k) \div N + 1])
    ELSE General(k, N)

\* C9: label k is Minimum / First Quartile / Median / Third Quartile / Maximum
\* exactly when N divides 4k with quotient 0..4, and the generic label otherwise.
C9_Labels ==
  HasQuantiles(meta) =>
    /\ DOMAIN Labels = 0..Intervals
    /\ \A k \in 0..Intervals :
         /\ Labels[k] = ClaimedLabel(k, Intervals)
         /\ Labels[k].text = "-quantile" <=> (4 * k) % Intervals # 0
    /\ Intervals = 4 =>
         [k \in 0..4 |-> Labels[k].text] =
           [k \in 0..4 |-> <<"Minimum", "First Quartile", "Median", "Third Quartile",
                             "Maximum">>[k + 1]]
    /\ Intervals = 3 =>
         [k \in 0..3 |-> Labels[k].text] =
           [k \in 0..3 |-> <<"Minimum", "-quantile", "-quantile", "Maximum">>[k + 1]]

C9_Witness ==
  /\ HasQuantiles(meta) /\ DeriveRan
  /\ Intervals = 3
  /\ Labels[1] = General(1, 3)

\* the sum of the counts of the real entries 1..r
RECURSIVE SumOfCounts(_, _)
SumOfCounts(card, r) == IF r = 0 THEN 0 ELSE SumOfCounts(card, r - 1) + card[r]

\* C10: Learn leaves the distinct values in ascending order with counts that
\* sum to the number of rows and -1 in row 0; Derive writes n, the sum of the
\* real counts, into row 0; its cdf is non-decreasing and ends at n.
C10_Cardinality ==
  Learned =>
    LET last == NumberOfRows(Histogram) - 1
        vals == Column.vals
        card == Histogram.Cardinality
    IN  /\ \A r \in 1..last : \A t \in 1..last :
             r < t => Less(Column.type, Histogram.Value[r], Histogram.Value[t])
        /\ {Histogram.Value[r] : r \in 1..last} = {vals[i] : i \in 1..Len(vals)}
        /\ \A r \in 1..last :
             card[r] = Cardinality({i \in 1..Len(vals) : vals[i] = Histogram.Value[r]})
        /\ SumOfCounts(card, last) = Len(vals)
        /\ ~DeriveRan => card[0] = -1
        /\ DeriveRan =>
             /\ card[0] = SumOfCounts(card, last)
             /\ DOMAIN cdf[1] = 1..last
             /\ \A r \in 1..(last - 1) : cdf[1][r] <= cdf[1][r + 1]
             /\ last >= 1 => cdf[1][last] = card[0]

C10_Witness ==
  /\ Learned /\ DeriveRan
  /\ NumberOfRows(Histogram) >= 3
  /\ Len(Column.vals) > NumberOfRows(Histogram) - 1
  /\ Histogram.Cardinality[0] = Len(Column.vals)

\* ------------------------------------------ claims on Derive's rank search
\* the histogram Learn built has only the cardinality row
EmptyHistogram == Learned /\ DeriveRan /\ NumberOfRows(Histogram) = 1

\* C11: on a histogram with only the cardinality row Derive is a no-op for the
\* column: no breakpoint is derived, no cdf or Value entry outside the existing
\* rows is read, and no error is reported.
C11_AsStated ==
  EmptyHistogram =>
    /\ ~outOfBounds
    /\ ~errorReported
    /\ HasQuantiles(meta) => QuantileColumn(meta, Requests[1]) = <<>>

\* round (halves away from zero), ceiling and floor of the fraction a / b, for
\* a >= 0 and b > 0, each as the integer its inequalities single out
Round(a, b) == CHOOSE m \in 0..(a + 1) : 2 * m * b - b <= 2 * a /\ 2 * a < 2 * m * b + b
Ceiling(a, b) == CHOOSE m \in 0..(a + 1) : (m - 1) * b < a /\ a <= m * b
Floor(a, b) == CHOOSE m \in 0..a : m * b <= a /\ a < (m + 1) * b

\* Derive ran on a histogram Learn built from a column of at least one row
NonEmptyRun == Learned /\ DeriveRan /\ Len(Column.vals) >= 1

\* the first rank from the rank `from` on at which the cdf reaches the index q
RankFrom(c, from, q) ==
  CHOOSE r \in from..Len(c) : c[r] >= q /\ \A t \in from..(r - 1) : c[t] < q

\* the rank pair stored for quantile k
RankPair(k) == quantileIndices[1][k + 1]

\* the rank pair of every interior k is found from the previous pair's upper
\* rank with the first index IdxInverse( k * n, N ) under InverseCDF and
\* IdxAveraged( k * n, N ) under InverseCDFAveragedSteps; the second index
\* floor( np + 1 ) moves the upper rank under InverseCDFAveragedSteps only
RankPairsFollow(IdxInverse(_, _), IdxAveraged(_, _)) ==
  \A k \in 1..(NumberOfIntervals - 1) :
    LET kn == k * Len(Column.vals)
        from == RankPair(k - 1)[2]
    IN  IF QuantileDefinition = InverseCDF
          THEN /\ RankPair(k)[1] = RankFrom(cdf[1], from, IdxInverse(kn, NumberOfIntervals))
               /\ RankPair(k)[2] = RankPair(k)[1]
          ELSE /\ RankPair(k)[1] = RankFrom(cdf[1], from, IdxAveraged(kn, NumberOfIntervals))
               /\ RankPair(k)[2] = RankFrom(cdf[1], RankPair(k)[1],
                                            Floor(kn, NumberOfIntervals) + 1)

\* C13 as stated: the first quantile index is round( np ) under InverseCDF and
\* ceil( np ) under InverseCDFAveragedSteps.
C13_AsStated ==
  NonEmptyRun => RankPairsFollow(Round, Ceiling)

\* C13: for every interior k with np = k * n / N the first quantile index is
\* ceil( np ) under InverseCDF and round( np ) under InverseCDFAveragedSteps; the
\* second index floor( np + 1 ) is computed under InverseCDFAveragedSteps only.
C13_QuantileIndices ==
  NonEmptyRun => RankPairsFollow(Ceiling, Round)

C13_Witness ==
  /\ NonEmptyRun
  /\ QuantileDefinition = InverseCDF
  /\ \E k \in 1..(NumberOfIntervals - 1) :
       /\ Round(k * Len(Column.vals), NumberOfIntervals)
            < Ceiling(k * Len(Column.vals), NumberOfIntervals)
       /\ RankPair(k)[1] > RankFrom(cdf[1], RankPair(k - 1)[2],
                                    Round(k * Len(Column.vals), NumberOfIntervals))

\* C17: on a histogram Learn built from a column of at least one row, for
\* every N and either definition, the rank search reads the cdf only at the
\* ranks 1..last, the overflow error is not raised, and the stored rank pairs
\* lie in 1..last with lower <= upper, both non-decreasing in k.
C17_RankCursor ==
  NonEmptyRun =>
    LET last == NumberOfRows(Histogram) - 1
    IN  /\ ~outOfBounds
        /\ ~errorReported
        /\ Len(quantileIndices[1]) = NumberOfIntervals + 1
        /\ \A k \in 0..NumberOfIntervals :
             /\ RankPair(k)[1] \in 1..last
             /\ RankPair(k)[2] \in 1..last
             /\ RankPair(k)[1] <= RankPair(k)[2]
        /\ \A k \in 1..NumberOfIntervals :
             /\ RankPair(k - 1)[1] <= RankPair(k)[1]
             /\ RankPair(k - 1)[2] <= RankPair(k)[2]

C17_Witness ==
  /\ NonEmptyRun
  /\ NumberOfIntervals >= 3
  /\ NumberOfRows(Histogram) >= 3
  /\ \E k \in 1..(NumberOfIntervals - 2) :
       /\ RankPair(k)[1] < RankPair(k)[2]
       /\ RankPair(k)[2] = NumberOfRows(Histogram) - 1
       /\ RankPair(k + 1)[1] = NumberOfRows(Histogram) - 1

\* ------------------------------------------------------- claims on Test
\* Test reported a row for the requested variable
Reported == tested.done /\ tested.reported

\* Test ran on the data set the histogram was learned from
SameData == Reported /\ Learned /\ tested.column = Column

\* C12: Test on the data set the histogram was learned from, against that
\* histogram's own breakpoints, with N at least the number of distinct values,
\* reports the maximum distance Dmn = 0.
C12_AsStated ==
  (SameData /\ NumberOfIntervals >= NumberOfRows(Histogram) - 1) =>
    tested.walk.Dmn[1] = 0

\* the points of the walk over the merged empirical CDF, in the order walked
Points == tested.walk.points

\* where the cursor was before point j
CursorBefore(j) == IF j = 1 THEN 0 ELSE Points[j - 1].currentQ

\* the value of point j is below the first breakpoint
BelowFirst(j) == StrLess(Points[j].key, tested.quantiles[0])

\* the first index from the index `from` on whose breakpoint is above the key,
\* or the number of breakpoints when there is none
StopFrom(from, key) ==
  CHOOSE i \in from..tested.nQuant :
    /\ i = tested.nQuant \/ StrLess(key, tested.quantiles[i])
    /\ \A t \in from..(i - 1) : ~StrLess(key, tested.quantiles[t])

\* the breakpoints are in ascending order as texts
TextAscending ==
  \A i \in 0..(tested.nQuant - 1) : \A j \in 0..(tested.nQuant - 1) :
    i < j => ~StrLess(tested.quantiles[j], tested.quantiles[i])

PointOf(v) == CHOOSE j \in 1..Len(Points) : Points[j].key = ValueToString("vtkDataArray", v)

\* C15: on a numeric column the empirical CDF is summed and walked in ascending
\* numeric order: the cumulative probability stored for an observed value v is
\* the fraction of observations <= v, and a smaller value is walked first.
C15_AsStated ==
  (Reported /\ ~outOfBounds /\ tested.column.type = "vtkDataArray") =>
    LET vals == tested.column.vals
    IN  \A i \in 1..Len(vals) :
          /\ Points[PointOf(vals[i])].ecdf =
               <<Cardinality({t \in 1..Len(vals) : vals[t] <= vals[i]}), Len(vals)>>
          /\ \A t \in 1..Len(vals) :
               vals[t] < vals[i] => PointOf(vals[t]) < PointOf(vals[i])

\* --------------------------------------- claims on Derive over several blocks
\* the histogram blocks of the model, the quantile table left out
HistogramBlocks == {b \in 1..Len(meta) : meta[b].name # "Quantiles"}

\* the block whose rank search raised the error: the last one Derive visited
FailedBlock == Len(quantileIndices)

\* C16: when the rank search overflows for one of several histogram blocks,
\* every other block (one at least has real entries) still gets its N+1 breakpoints and the "Quantiles" table
\* is still appended as the last block of the model.
C16_AsStated ==
  (DeriveRan /\ errorReported
     /\ \E b \in HistogramBlocks \ {FailedBlock} : NumberOfRows(meta[b].table) >= 2) =>
    /\ HasQuantiles(meta)
    /\ \A b \in HistogramBlocks \ {FailedBlock} :
         /\ QuantileColumn(meta, meta[b].name) # <<>>
         /\ DOMAIN QuantileColumn(meta, meta[b].name)[1].vals = 0..NumberOfIntervals

====
